---------------------------- MODULE Spec2Model ----------------------------
(***************************************************************************)
(* A model of crator's two core primitives (src/src/lib.rs):               *)
(*   - execute: the single-task spin-then-yield executor;                  *)
(*   - Json::extract with get_key_value, get_array_index and               *)
(*     slice_until_boundary: the dot-path text extractor.                  *)
(* Text is a sequence of one-character strings.                            *)
(***************************************************************************)
EXTENDS Integers, Sequences, FiniteSets, TLC

VARIABLES
    \* execute
    epc,        \* "Idle" | "Polling" | "Completed" (execute has returned)
    spins,      \* the local `spins`
    pend,       \* history: polls that reported Pending so far
    nspin,      \* history: calls of hint::spin_loop
    nyield,     \* history: calls of thread::yield_now
    last,       \* history: outcome of the latest poll ("none", "pending" or a value)
    polls,      \* history: polls made so far
    ret,        \* the value execute returned ("none" before it returns)
    \* Json::extract
    body,       \* the argument `body`
    path,       \* the argument `path`
    parts,      \* the segments of path.split('.') not yet visited
    cur,        \* the local `current_body`
    xpc,        \* "Idle" | "loop" | "done" | "panic"
    res,        \* the String extract returned
    nseg,       \* history: path segments evaluated so far
    doc,        \* the document `body` is the text of (<<>> when body is free text)
    sp,         \* whether that text is spaced out (pretty-printed) or minified
    \* Json::slice_until_boundary
    s,          \* the local `s` (data.trim_start())
    i,          \* the loop index (0-based, as in the source)
    d_obj,      \* object depth
    d_arr,      \* array depth
    q,          \* inside a quoted string
    spc,        \* "Idle" | "scan" | "done"
    sres        \* the String slice_until_boundary returned

execVars == <<epc, spins, pend, nspin, nyield, last, polls, ret>>
extrVars == <<body, path, parts, cur, xpc, res, nseg, doc, sp>>
scanVars == <<s, i, d_obj, d_arr, q, spc, sres>>
vars == <<execVars, extrVars, scanVars>>

----------------------------------------------------------------------------
(* execute                                                                 *)

\* `if spins < 150_000`
SpinThreshold == 150000

\* Bound: the longest run of Pending polls explored.
MaxPending == 400000

\* The values the wrapped future may complete with.
Outputs == {"v1", "v2"}

ExecIdle ==
    /\ epc = "Idle" /\ spins = 0 /\ pend = 0 /\ nspin = 0 /\ nyield = 0
    /\ last = "none" /\ polls = 0 /\ ret = "none"

\* let mut spins = 0u64; loop { ... }
ExecInit ==
    /\ epc = "Polling" /\ spins = 0 /\ pend = 0 /\ nspin = 0 /\ nyield = 0
    /\ last = "none" /\ polls = 0 /\ ret = "none"

\* The guard of the spin branch.
SpinGuardOffByOne(n) == n <= SpinThreshold
SpinGuard(n) == n < SpinThreshold

\* The counter after a yield.
YieldKeepsCounter(n) == n
AfterYield(n) == 0

\* What execute does with Poll::Ready(v).
ReadyDropsValue(v) == "none"
ReadyValue(v) == v

\* Poll::Ready(v) => return v
PollReady ==
    /\ epc = "Polling"
    /\ \E v \in Outputs :
        /\ last' = v
        /\ ret' = ReadyValue(v)
    /\ epc' = "Completed"
    /\ polls' = polls + 1
    /\ UNCHANGED <<spins, pend, nspin, nyield>>

\* Poll::Pending with spins < 150_000: hint::spin_loop(); spins += 1
PollPendingSpin ==
    /\ epc = "Polling"
    /\ pend < MaxPending
    /\ SpinGuard(spins)
    /\ spins' = spins + 1
    /\ nspin' = nspin + 1
    /\ pend' = pend + 1
    /\ last' = "pending"
    /\ polls' = polls + 1
    /\ UNCHANGED <<epc, nyield, ret>>

\* Poll::Pending otherwise: thread::yield_now(); spins = 0
PollPendingYield ==
    /\ epc = "Polling"
    /\ pend < MaxPending
    /\ ~SpinGuard(spins)
    /\ spins' = AfterYield(spins)
    /\ nyield' = nyield + 1
    /\ pend' = pend + 1
    /\ last' = "pending"
    /\ polls' = polls + 1
    /\ UNCHANGED <<epc, nspin, ret>>

ExecNext ==
    \/ PollReady /\ UNCHANGED <<extrVars, scanVars>>
    \/ PollPendingSpin /\ UNCHANGED <<extrVars, scanVars>>
    \/ PollPendingYield /\ UNCHANGED <<extrVars, scanVars>>

----------------------------------------------------------------------------
(* Text primitives of the standard library, as the extractor uses them      *)

\* The sentinel "N/A".
NA == <<"N", "/", "A">>

\* u8::is_ascii_whitespace; str::trim and trim_start strip the same characters
\* on the ASCII text modelled here.
AsciiWs == {" ", "\t", "\n", "\r", "\f"}

Quote == "\""
Backslash == "\\"

\* t[from..] with a 0-based byte offset.
From(t, from) == SubSeq(t, from + 1, Len(t))

\* t[..to] with a 0-based byte offset.
Upto(t, to) == SubSeq(t, 1, to)

\* The number of leading characters of t that are in C.
LeadIn(t, C) ==
    IF \E k \in 1..Len(t) : t[k] \notin C
    THEN (CHOOSE k \in 1..Len(t) : t[k] \notin C /\ \A j \in 1..(k - 1) : t[j] \in C) - 1
    ELSE Len(t)

\* The number of trailing characters of t that are in C.
TrailIn(t, C) ==
    IF \E k \in 1..Len(t) : t[k] \notin C
    THEN Len(t) - (CHOOSE k \in 1..Len(t) : t[k] \notin C /\ \A j \in (k + 1)..Len(t) : t[j] \in C)
    ELSE Len(t)

\* str::trim_matches(|c| c in C)
TrimMatches(t, C) ==
    IF LeadIn(t, C) = Len(t) THEN <<>>
    ELSE SubSeq(t, LeadIn(t, C) + 1, Len(t) - TrailIn(t, C))

\* str::trim_start
TrimStart(t) == From(t, LeadIn(t, AsciiWs))

\* str::trim
Trim(t) == TrimMatches(t, AsciiWs)

\* str::starts_with(char) and str::ends_with(char)
StartsWith(t, c) == Len(t) > 0 /\ t[1] = c
EndsWith(t, c) == Len(t) > 0 /\ t[Len(t)] = c

\* str::find(pattern): the 1-based position of the first occurrence, 0 for None.
Find(t, pat) ==
    LET hits == {k \in 1..(Len(t) - Len(pat) + 1) : SubSeq(t, k, k + Len(pat) - 1) = pat}
    IN IF hits = {} THEN 0 ELSE CHOOSE k \in hits : \A j \in hits : k <= j

\* str::split('.'), collected: always at least one segment.
RECURSIVE Split(_)
Split(p) ==
    LET d == Find(p, <<".">>)
    IN IF d = 0 THEN <<p>> ELSE <<Upto(p, d - 1)>> \o Split(From(p, d))

Digits == {"0", "1", "2", "3", "4", "5", "6", "7", "8", "9"}

DigitVal(c) ==
    CASE c = "0" -> 0 [] c = "1" -> 1 [] c = "2" -> 2 [] c = "3" -> 3 [] c = "4" -> 4
      [] c = "5" -> 5 [] c = "6" -> 6 [] c = "7" -> 7 [] c = "8" -> 8 [] c = "9" -> 9

RECURSIVE DecVal(_)
DecVal(ds) == IF ds = <<>> THEN 0 ELSE DecVal(Upto(ds, Len(ds) - 1)) * 10 + DigitVal(ds[Len(ds)])

\* str::parse::<usize>(): an optional '+', then one or more decimal digits.
\* (Overflow of usize needs twenty digits, beyond every path explored here.)
ParseUsize(part) ==
    LET ds == IF StartsWith(part, "+") THEN Tail(part) ELSE part
    IN IF ds # <<>> /\ \A k \in 1..Len(ds) : ds[k] \in Digits
       THEN [ok |-> TRUE, val |-> DecVal(ds)]
       ELSE [ok |-> FALSE, val |-> 0]

----------------------------------------------------------------------------
(* Json::slice_until_boundary                                              *)

\* Whether a closing delimiter met at depth d ends the scan.
NeverEndsValue(d) == FALSE
EndsValue(d) == d = 0

\* Whether the quote at 0-based index k of t toggles the quote flag:
\* `b'"' if i == 0 || bytes[i-1] != b'\\'`
TogglesQuote(t, k) == t[k + 1] = Quote /\ (k = 0 \/ t[k] # Backslash)

\* The guard of `_ if q => continue`.
QuotesIgnored(qq) == FALSE
InQuotes(qq) == qq

\* One iteration of `for (i, &b) in bytes.iter().enumerate()` on byte k of t, from
\* scan state st = [d_obj, d_arr, q]: the next scan state, with done and out set
\* when the iteration returns.
ScanByte(t, k, st) ==
    LET b == t[k + 1]
        inq == InQuotes(st.q)
        top == st.d_obj = 0 /\ st.d_arr = 0
        go(o, a, qq) == [d_obj |-> o, d_arr |-> a, q |-> qq, done |-> FALSE, out |-> <<>>]
        stop == [d_obj |-> st.d_obj, d_arr |-> st.d_arr, q |-> st.q,
                 done |-> TRUE, out |-> Trim(Upto(t, k))]
    IN CASE TogglesQuote(t, k) -> go(st.d_obj, st.d_arr, ~st.q)
         [] ~TogglesQuote(t, k) /\ inq -> go(st.d_obj, st.d_arr, st.q)
         [] ~TogglesQuote(t, k) /\ ~inq /\ b = "{" -> go(st.d_obj + 1, st.d_arr, st.q)
         [] ~TogglesQuote(t, k) /\ ~inq /\ b = "}" ->
                IF EndsValue(st.d_obj) THEN stop ELSE go(st.d_obj - 1, st.d_arr, st.q)
         [] ~TogglesQuote(t, k) /\ ~inq /\ b = "[" -> go(st.d_obj, st.d_arr + 1, st.q)
         [] ~TogglesQuote(t, k) /\ ~inq /\ b = "]" ->
                IF EndsValue(st.d_arr) THEN stop ELSE go(st.d_obj, st.d_arr - 1, st.q)
         [] ~TogglesQuote(t, k) /\ ~inq /\ b = "," /\ top -> stop
         [] ~TogglesQuote(t, k) /\ ~inq /\ b \notin {"{", "}", "[", "]"} /\ ~(b = "," /\ top)
                /\ top /\ b \in AsciiWs /\ k > 0 -> stop
         [] OTHER -> go(st.d_obj, st.d_arr, st.q)

\* The value returned when the loop runs off the end of the text.
ScanFallback(t) == Trim(TrimMatches(t, {",", "}", "]"}))

RECURSIVE ScanFrom(_, _, _)
ScanFrom(t, k, st) ==
    IF k = Len(t) THEN ScanFallback(t)
    ELSE LET n == ScanByte(t, k, st)
         IN IF n.done THEN n.out ELSE ScanFrom(t, k + 1, n)

ScanStart == [d_obj |-> 0, d_arr |-> 0, q |-> FALSE, done |-> FALSE, out |-> <<>>]

\* fn slice_until_boundary(data: &str) -> String
SliceUntilBoundary(data) ==
    LET t == TrimStart(data)
    IN IF t = <<>> THEN <<>> ELSE ScanFrom(t, 0, ScanStart)

----------------------------------------------------------------------------
(* Json::get_key_value, Json::get_array_index                              *)

\* format!("\"{}\"", key)
Pattern(key) == <<Quote>> \o key \o <<Quote>>

\* fn get_key_value(body: &str, key: &str) -> String
GetKeyValue(b, key) ==
    LET pattern == Pattern(key)
        key_idx == Find(b, pattern)
        after_key == From(b, key_idx - 1 + Len(pattern))
        colon_idx == Find(after_key, <<":">>)
    IN IF key_idx = 0 THEN NA
       ELSE IF colon_idx = 0 THEN NA
       ELSE SliceUntilBoundary(From(after_key, colon_idx))

\* The body of `for i in 0..=target`, from iteration k on.
RECURSIVE ArrayLoop(_, _, _)
ArrayLoop(content, k, target) ==
    LET c1 == TrimStart(content)
        val == SliceUntilBoundary(c1)
        c2 == TrimStart(From(c1, Len(val)))
    IN IF k = target THEN val
       ELSE IF Len(val) = 0 THEN NA
       ELSE IF StartsWith(c2, ",") THEN ArrayLoop(Tail(c2), k + 1, target)
       ELSE NA

\* fn get_array_index(body: &str, target: usize) -> String
GetArrayIndex(b, target) ==
    LET trimmed == TrimStart(b)
    IN IF ~StartsWith(trimmed, "[") THEN NA
       ELSE ArrayLoop(Tail(trimmed), 0, target)

----------------------------------------------------------------------------
(* Json::extract                                                           *)

\* `if next == "N/A" { return "N/A".to_string(); }`
NeverAborts(next) == FALSE
Aborts(next) == next = NA

\* `current_body.starts_with('"') && current_body.ends_with('"')`
IsQuoted(c) == StartsWith(c, Quote) /\ EndsWith(c, Quote)

\* `current_body[1..current_body.len() - 1]`: the range 1..len-1 panics when it
\* begins after its end, which is when len is 1.
SlicePanics(c) == 1 > Len(c) - 1
Unquoted(c) == SubSeq(c, 2, Len(c) - 1)

\* fn extract(body: &str, path: &str) -> String, as a function of its arguments:
\* [panic |-> whether the call panics, out |-> the String returned otherwise].
RECURSIVE ExtractLoop(_, _)
ExtractLoop(c, ps) ==
    IF ps = <<>>
    THEN IF IsQuoted(c)
         THEN IF SlicePanics(c) THEN [panic |-> TRUE, out |-> <<>>]
              ELSE [panic |-> FALSE, out |-> Unquoted(c)]
         ELSE [panic |-> FALSE, out |-> c]
    ELSE LET next == IF ParseUsize(Head(ps)).ok
                     THEN GetArrayIndex(c, ParseUsize(Head(ps)).val)
                     ELSE GetKeyValue(c, Head(ps))
         IN IF Aborts(next) THEN [panic |-> FALSE, out |-> NA]
            ELSE ExtractLoop(next, Tail(ps))

Extract(b, p) == ExtractLoop(b, Split(p))

ExtrIdle ==
    /\ body = <<>> /\ path = <<>> /\ parts = <<>> /\ cur = <<>>
    /\ xpc = "Idle" /\ res = <<>> /\ nseg = 0 /\ doc = <<>> /\ sp = FALSE

\* let mut current_body = body.to_string(); for part in path.split('.')
ExtrStart(b, p) ==
    /\ body = b /\ path = p /\ parts = Split(p) /\ cur = b
    /\ xpc = "loop" /\ res = <<>> /\ nseg = 0

\* The end of one iteration, with `next` computed.
Advance(next) ==
    /\ nseg' = nseg + 1
    /\ IF Aborts(next)
       THEN xpc' = "done" /\ res' = NA /\ UNCHANGED <<cur, parts>>
       ELSE cur' = next /\ parts' = Tail(parts) /\ UNCHANGED <<xpc, res>>
    /\ UNCHANGED <<body, path, doc, sp>>

\* An iteration whose part parses as usize.
StepIndex ==
    /\ xpc = "loop" /\ parts # <<>>
    /\ ParseUsize(Head(parts)).ok
    /\ Advance(GetArrayIndex(cur, ParseUsize(Head(parts)).val))

\* An iteration whose part does not.
StepKey ==
    /\ xpc = "loop" /\ parts # <<>>
    /\ ~ParseUsize(Head(parts)).ok
    /\ Advance(GetKeyValue(cur, Head(parts)))

\* After the loop: auto-unquote and return.
Finish ==
    /\ xpc = "loop" /\ parts = <<>>
    /\ IF IsQuoted(cur)
       THEN IF SlicePanics(cur)
            THEN xpc' = "panic" /\ res' = <<>>
            ELSE xpc' = "done" /\ res' = Unquoted(cur)
       ELSE xpc' = "done" /\ res' = cur
    /\ UNCHANGED <<body, path, parts, cur, nseg, doc, sp>>

ExtrNext ==
    \/ StepIndex /\ UNCHANGED <<execVars, scanVars>>
    \/ StepKey /\ UNCHANGED <<execVars, scanVars>>
    \/ Finish /\ UNCHANGED <<execVars, scanVars>>

----------------------------------------------------------------------------
(* Json::slice_until_boundary, one loop iteration at a time                *)

ScanIdle ==
    /\ s = <<>> /\ i = 0 /\ d_obj = 0 /\ d_arr = 0 /\ q = FALSE
    /\ spc = "Idle" /\ sres = <<>>

\* let s = data.trim_start(); if s.is_empty() { return "".to_string(); }
ScanBegin(data) ==
    /\ s = TrimStart(data) /\ i = 0 /\ d_obj = 0 /\ d_arr = 0 /\ q = FALSE
    /\ spc = (IF TrimStart(data) = <<>> THEN "done" ELSE "scan")
    /\ sres = <<>>

\* One iteration of the loop over the bytes of s.
ScanStep ==
    /\ spc = "scan" /\ i < Len(s)
    /\ LET n == ScanByte(s, i, [d_obj |-> d_obj, d_arr |-> d_arr, q |-> q])
       IN /\ d_obj' = n.d_obj /\ d_arr' = n.d_arr /\ q' = n.q
          /\ IF n.done
             THEN spc' = "done" /\ sres' = n.out /\ i' = i
             ELSE spc' = "scan" /\ sres' = sres /\ i' = i + 1
    /\ UNCHANGED s

\* The loop ran off the end: the trim-based fallback.
ScanEnd ==
    /\ spc = "scan" /\ i = Len(s)
    /\ spc' = "done" /\ sres' = ScanFallback(s)
    /\ UNCHANGED <<s, i, d_obj, d_arr, q>>

ScanNext ==
    \/ ScanStep /\ UNCHANGED <<execVars, extrVars>>
    \/ ScanEnd /\ UNCHANGED <<execVars, extrVars>>

----------------------------------------------------------------------------
(* Inputs: free text, and well-formed JSON documents with their text        *)

\* Bound: tokens of the body plus segments of the path, for free-text inputs.
MaxInput == 5

\* Bound: nodes (literals, objects, arrays) of a generated document.
MaxNodes == 4

\* Bound: characters of the text given to a stepwise boundary scan.
MaxScanLen == 4

BodyTokens == {<<Quote, "a", Quote>>, <<Quote>>, <<":">>, <<"[">>, <<"]">>,
               <<",">>, <<"1">>, <<" ">>}
Segments == {<<>>, <<"a">>, <<"0">>, <<"1">>}
ScanChars == {"{", "}", "[", "]", Quote, Backslash, ",", " ", "a"}

\* All sequences over S of length n.
Tuples(S, n) == [1..n -> S]

RECURSIVE Flatten(_)
Flatten(ts) == IF ts = <<>> THEN <<>> ELSE Head(ts) \o Flatten(Tail(ts))

\* The segments joined with '.', the path a caller writes.
RECURSIVE JoinDots(_)
JoinDots(segs) ==
    IF Len(segs) = 1 THEN Head(segs)
    ELSE Head(segs) \o <<".">> \o JoinDots(Tail(segs))

Keys == {<<"a">>, <<"b">>}
Lits == {<<"1">>,
         <<Quote, "a", Quote>>,
         <<Quote, ",", " ", "}", Quote>>,
         <<Quote, Backslash, Backslash, Quote>>}

Lit(t) == [k |-> "lit", text |-> t, keys |-> <<>>, vals |-> <<>>]
Arr(vs) == [k |-> "arr", text |-> <<>>, keys |-> <<>>, vals |-> vs]
Obj(ks, vs) == [k |-> "obj", text |-> <<>>, keys |-> ks, vals |-> vs]

\* Sequences of n distinct keys.
KeySeqs(n) == {ks \in Tuples(Keys, n) : \A x, y \in 1..n : x # y => ks[x] # ks[y]}

\* The documents of exactly n nodes, and the sequences of documents of n nodes in all.
RECURSIVE DocsOf(_), Forests(_)
DocsOf(n) ==
    (IF n = 1 THEN {Lit(t) : t \in Lits} ELSE {})
    \cup {Arr(f) : f \in Forests(n - 1)}
    \cup UNION {{Obj(ks, f) : ks \in KeySeqs(Len(f))} : f \in Forests(n - 1)}
Forests(n) ==
    IF n = 0 THEN {<<>>}
    ELSE UNION {{<<v>> \o f : v \in DocsOf(m), f \in Forests(n - m)} : m \in 1..n}

\* The text of a document: minified, or with a space around every token.
Gap(spaced) == IF spaced THEN <<" ">> ELSE <<>>

RECURSIVE Ser(_, _), SerItems(_, _, _)
\* Items from position j on, each after the first preceded by a comma.
SerItems(v, j, spaced) ==
    IF j > Len(v.vals) THEN <<>>
    ELSE (IF j > 1 THEN <<",">> \o Gap(spaced) ELSE <<>>)
         \o (IF v.k = "obj" THEN Pattern(v.keys[j]) \o Gap(spaced) \o <<":">> \o Gap(spaced)
             ELSE <<>>)
         \o Ser(v.vals[j], spaced) \o Gap(spaced)
         \o SerItems(v, j + 1, spaced)
Ser(v, spaced) ==
    CASE v.k = "lit" -> v.text
      [] v.k = "arr" -> <<"[">> \o Gap(spaced) \o SerItems(v, 1, spaced) \o <<"]">>
      [] v.k = "obj" -> <<"{">> \o Gap(spaced) \o SerItems(v, 1, spaced) \o <<"}">>

IndexSeg(n) == <<CHOOSE c \in Digits : DigitVal(c) = n>>

\* The paths into a document: every key and index that exists, and at each array
\* the first two indices past its end.
RECURSIVE Paths(_)
Paths(v) ==
    {<<>>}
    \cup UNION {{<<IF v.k = "obj" THEN v.keys[j] ELSE IndexSeg(j - 1)>> \o p
                    : p \in Paths(v.vals[j])} : j \in 1..Len(v.vals)}
    \cup (IF v.k = "arr" THEN {<<IndexSeg(Len(v.vals))>>, <<IndexSeg(Len(v.vals) + 1)>>}
          ELSE {})

----------------------------------------------------------------------------
(* Specifications                                                          *)

InitExec == ExecInit /\ ExtrIdle /\ ScanIdle

InitText ==
    /\ ExecIdle /\ ScanIdle
    /\ doc = <<>> /\ sp = FALSE
    /\ \E n \in 1..MaxInput : \E m \in 0..(MaxInput - n) :
         \E segs \in Tuples(Segments, n) : \E toks \in Tuples(BodyTokens, m) :
            ExtrStart(Flatten(toks), JoinDots(segs))

InitJson ==
    /\ ExecIdle /\ ScanIdle
    /\ \E n \in 1..MaxNodes : \E d \in DocsOf(n) : \E spaced \in BOOLEAN :
         \E segs \in Paths(d) \ {<<>>} :
            /\ doc = d /\ sp = spaced
            /\ ExtrStart(Ser(d, spaced), JoinDots(segs))

InitScan ==
    /\ ExecIdle /\ ExtrIdle
    /\ \E n \in 0..MaxScanLen : \E data \in Tuples(ScanChars, n) : ScanBegin(data)

Init == InitExec \/ InitText \/ InitJson \/ InitScan
Next == ExecNext \/ ExtrNext \/ ScanNext

Spec == Init /\ [][Next]_vars
SpecExec == InitExec /\ [][ExecNext]_vars
SpecText == InitText /\ [][ExtrNext]_vars
SpecJson == InitJson /\ [][ExtrNext]_vars
SpecScan == InitScan /\ [][ScanNext]_vars

----------------------------------------------------------------------------
(* Claims about execute (checked under SpecExec)                           *)

\* C7: each Pending poll does exactly one of two things: while the counter is
\* below the threshold, a spin hint and counter + 1; once it has hit the
\* threshold, a yield and counter := 0.  Hence a task ready on its first poll
\* returns after zero spins and zero yields, and one pending 400,000 times has
\* crossed the threshold at least twice when it returns.
C7_PendingStep ==
    pend' = pend + 1 =>
        IF spins < SpinThreshold
        THEN spins' = spins + 1 /\ nspin' = nspin + 1 /\ nyield' = nyield
        ELSE spins' = 0 /\ nyield' = nyield + 1 /\ nspin' = nspin
C7_Counts ==
    /\ nspin + nyield = pend
    /\ (epc = "Completed" /\ pend = 0) => (nspin = 0 /\ nyield = 0)
    /\ (epc = "Completed" /\ pend = 400000) => nyield >= 2
C7_SpinThenYield == []C7_Counts /\ [][C7_PendingStep]_vars

\* C7 witness: execute has returned after 400,000 pending polls and two yields.
C7_Witness == epc = "Completed" /\ pend = 400000 /\ nyield = 2 /\ nspin = 399998

\* C8: execute returns if and only if a poll reported Ready, and then returns
\* that poll's value; polls are counted one at a time; once it has returned
\* nothing is polled again (Completed is terminal and is entered from Polling).
C8_Returned ==
    /\ epc = "Completed" <=> last \in Outputs
    /\ epc = "Completed" => ret = last
    /\ epc = "Polling" => ret = "none"
    /\ polls = pend + (IF epc = "Completed" THEN 1 ELSE 0)
C8_Step ==
    /\ epc = "Completed" => UNCHANGED execVars
    /\ epc' = "Completed" => epc = "Polling" /\ polls' = polls + 1 /\ ret' = last'
    /\ polls' = polls + 1
C8_ReturnsIffReady == []C8_Returned /\ [][C8_Step]_vars

\* C8 witness: execute has returned the value of a Ready poll that came after
\* Pending ones.
C8_Witness == epc = "Completed" /\ pend = 3 /\ polls = 4 /\ last = "v2" /\ ret = "v2"

\* C9, as claimed: between polls the spin counter is always below the threshold.
C9_CounterBelowThreshold == 0 <= spins /\ spins < SpinThreshold

\* C9, amended: between polls the spin counter is at most the threshold; it
\* reaches the threshold itself and the next pending poll resets it.
C9_CounterAtMostThreshold == 0 <= spins /\ spins <= SpinThreshold

\* C9 witness: the loop is still polling with the counter equal to the threshold.
C9_Witness == epc = "Polling" /\ spins = SpinThreshold /\ nyield = 1

----------------------------------------------------------------------------
(* Claims about boundary scanning (checked under SpecScan)                  *)

\* The byte the next loop iteration looks at.
NextByte == s[i + 1]

\* The closing quote of the JSON string that t starts with: the first quote
\* after the opening one that follows an even number of backslashes (0 if none).
BackslashRun(t, p) ==
    LET starts == {j \in 1..p : \A x \in j..(p - 1) : t[x] = Backslash}
    IN p - (CHOOSE j \in starts : \A y \in starts : j <= y)
ClosingQuote(t) ==
    LET cs == {p \in 2..Len(t) : t[p] = Quote /\ BackslashRun(t, p) % 2 = 0}
    IN IF cs = {} THEN 0 ELSE CHOOSE p \in cs : \A y \in cs : p <= y

\* C6: when the scanned value is a quoted string, the scan does not end before
\* the string's closing quote, whatever the string contains: the returned span
\* holds the whole string, closing quote included.  On the spec's example the
\* value found for key k in {"k":"a,b}c"} unquotes to a,b}c.  When a delimiter
\* directly follows the closing quote of a string without backslashes, the span
\* is exactly the string.
C6_Example ==
    LET text == <<"{", Quote, "k", Quote, ":", Quote, "a", ",", "b", "}", "c", Quote, "}">>
    IN Extract(text, <<"k">>) = [panic |-> FALSE, out |-> <<"a", ",", "b", "}", "c">>]
C6_QuotedNotTruncated ==
    /\ C6_Example
    /\ (spc = "done" /\ StartsWith(s, Quote) /\ ClosingQuote(s) # 0) =>
          /\ i < Len(s) => i >= ClosingQuote(s)
          /\ Len(sres) >= ClosingQuote(s)
          /\ Upto(sres, ClosingQuote(s)) = Upto(s, ClosingQuote(s))
          /\ (/\ ClosingQuote(s) < Len(s)
              /\ s[ClosingQuote(s) + 1] \in {",", "}", "]", " "}
              /\ \A x \in 1..ClosingQuote(s) : s[x] # Backslash) => sres = Upto(s, ClosingQuote(s))

\* C6 witness: a scan that returned at a delimiter after a quoted string that
\* itself holds a delimiter or whitespace.
C6_Witness ==
    /\ spc = "done" /\ StartsWith(s, Quote) /\ ClosingQuote(s) = 3
    /\ s[2] \in {",", "}", "]", " "}
    /\ i = 3 /\ sres = Upto(s, 3)

\* C10: both depth counters are never negative; an unquoted closing delimiter
\* met while its own counter is zero ends the scan, returning the text before it
\* and decrementing nothing; a byte met inside a quoted string changes neither.
C10_Depths == d_obj >= 0 /\ d_arr >= 0
C10_Step ==
    (spc = "scan" /\ i < Len(s)) =>
        /\ (~q /\ NextByte = "}" /\ d_obj = 0) =>
              (spc' = "done" /\ sres' = Trim(Upto(s, i)) /\ d_obj' = 0 /\ d_arr' = d_arr)
        /\ (~q /\ NextByte = "]" /\ d_arr = 0) =>
              (spc' = "done" /\ sres' = Trim(Upto(s, i)) /\ d_arr' = 0 /\ d_obj' = d_obj)
        /\ q => (d_obj' = d_obj /\ d_arr' = d_arr)
C10_DepthsNonNegative == []C10_Depths /\ [][C10_Step]_vars

\* C10 witness: a scan that opened and closed a nested array and then ended at a
\* closing bracket met at depth zero.
C10_Witness ==
    /\ spc = "done" /\ i = 2 /\ Len(s) > 2
    /\ s[1] = "[" /\ s[2] = "]" /\ s[3] = "]"
    /\ d_arr = 0 /\ d_obj = 0 /\ sres = <<"[", "]">>

----------------------------------------------------------------------------
(* Claims about extract on arbitrary text (checked under SpecText)          *)

\* C1: whatever the body and the path, extract returns (the sentinel or a value)
\* and never panics.
C1_NeverPanics == xpc # "panic"

\* C4: a path with an empty segment makes extract return the sentinel.
HasEmptySegment(p) == \E k \in 1..Len(Split(p)) : Split(p)[k] = <<>>
C4_EmptySegmentSentinel ==
    (xpc = "done" /\ HasEmptySegment(path)) => res = NA

\* The narrowing of `scope` by `part` fails: an integer segment on a scope that
\* does not start with '[', or a key whose quoted pattern does not occur in the
\* scope or has no colon after it.
NarrowFails(scope, part) ==
    IF ParseUsize(part).ok
    THEN ~StartsWith(TrimStart(scope), "[")
    ELSE \/ Find(scope, Pattern(part)) = 0
         \/ Find(From(scope, Find(scope, Pattern(part)) - 1 + Len(Pattern(part))), <<":">>) = 0

\* C5: a narrowing failure at any segment makes extract return exactly the
\* sentinel in that very step, the later segments never being evaluated; a
\* return before the last segment is never the partially narrowed text.  On the
\* spec's example, {"a":1} with path missing.path gives the sentinel.
C5_Example ==
    LET text == <<"{", Quote, "a", Quote, ":", "1", "}">>
        p == <<"m", "i", "s", "s", "i", "n", "g", ".", "p", "a", "t", "h">>
    IN Extract(text, p) = [panic |-> FALSE, out |-> NA]
C5_Step ==
    /\ (xpc = "loop" /\ parts # <<>> /\ NarrowFails(cur, Head(parts))) =>
          (xpc' = "done" /\ res' = NA /\ nseg' = nseg + 1 /\ parts' = parts)
    /\ xpc = "done" => UNCHANGED extrVars
C5_Early ==
    /\ C5_Example
    /\ (xpc = "done" /\ parts # <<>>) => (res = NA /\ nseg + Len(parts) = Len(Split(path)) + 1)
C5_FailureAborts == []C5_Early /\ [][C5_Step]_vars

\* C5 witness: the first segment narrowed the body, the second failed, a third
\* was never evaluated, and the sentinel came back.
C5_Witness ==
    /\ xpc = "done" /\ res = NA /\ nseg = 2 /\ Len(parts) = 2
    /\ cur # body /\ cur # NA /\ NarrowFails(cur, Head(parts))

----------------------------------------------------------------------------
(* Claims about extract on well-formed JSON (checked under SpecJson)        *)

\* The node a sequence of segments addresses (a key in an object, a 0-based
\* index in an array), or Missing.
Missing == [k |-> "missing", text |-> <<>>, keys |-> <<>>, vals |-> <<>>]

RECURSIVE Resolve(_, _)
Resolve(v, segs) ==
    IF segs = <<>> THEN v
    ELSE IF v.k = "obj" /\ \E j \in 1..Len(v.keys) : v.keys[j] = Head(segs)
    THEN Resolve(v.vals[CHOOSE j \in 1..Len(v.keys) : v.keys[j] = Head(segs)], Tail(segs))
    ELSE IF v.k = "arr" /\ ParseUsize(Head(segs)).ok /\ ParseUsize(Head(segs)).val < Len(v.vals)
    THEN Resolve(v.vals[ParseUsize(Head(segs)).val + 1], Tail(segs))
    ELSE Missing

\* The text of a value as a caller expects it: a string without its quotes.
ValueText(v, spaced) ==
    IF v.k = "lit" /\ Head(v.text) = Quote
    THEN SubSeq(v.text, 2, Len(v.text) - 1)
    ELSE Ser(v, spaced)

\* Every segment is a key.
IsKeyPath(segs) == \A k \in 1..Len(segs) : segs[k] \in Keys

\* C2, as claimed: for a well-formed object and an existing path of keys,
\* extract returns the text of the addressed value, whatever else the document
\* holds.
C2_ExistingKeyPath ==
    (xpc \in {"done", "panic"} /\ doc.k = "obj" /\ IsKeyPath(Split(path))) =>
        (xpc = "done" /\ res = ValueText(Resolve(doc, Split(path)), sp))

\* The text of object v before the key of its j-th member.
KeyOffset(v, j, spaced) ==
    Len(Ser(Obj(Upto(v.keys, j - 1), Upto(v.vals, j - 1)), spaced)) - 1
    + (IF j > 1 THEN 1 + Len(Gap(spaced)) ELSE 0)

\* At every segment the first occurrence of the quoted key in the scope is the
\* addressed member's own key.
RECURSIVE FirstHits(_, _, _)
FirstHits(v, segs, spaced) ==
    segs = <<>> \/
    LET j == CHOOSE x \in 1..Len(v.keys) : v.keys[x] = Head(segs)
    IN /\ Find(Ser(v, spaced), Pattern(Head(segs))) = KeyOffset(v, j, spaced) + 1
       /\ FirstHits(v.vals[j], Tail(segs), spaced)

\* No string in v has a backslash right before its closing quote.
RECURSIVE NoTrailingBackslash(_)
NoTrailingBackslash(v) ==
    IF v.k = "lit" THEN ~(Len(v.text) > 2 /\ v.text[Len(v.text) - 1] = Backslash)
    ELSE \A j \in 1..Len(v.vals) : NoTrailingBackslash(v.vals[j])

\* What does hold of existing key paths: the addressed value's text comes back
\* whenever at every segment the first textual occurrence of the quoted key in
\* the current scope is the addressed key itself and the value the first segment
\* addresses holds no string with a backslash right before its closing quote.
FirstOccurrenceKeyPath ==
    (/\ xpc \in {"done", "panic"} /\ doc.k = "obj" /\ IsKeyPath(Split(path))
     /\ FirstHits(doc, Split(path), sp)
     /\ NoTrailingBackslash(Resolve(doc, <<Head(Split(path))>>))) =>
        (xpc = "done" /\ res = ValueText(Resolve(doc, Split(path)), sp))

\* C3: on a well-formed array of n elements, index i < n gives the text of
\* element i (counting from 0) and every index i >= n gives the sentinel, index 0
\* of the empty array included.
C3_ZeroBasedIndexing ==
    (/\ doc.k = "arr" /\ Len(Split(path)) = 1 /\ ParseUsize(path).ok
     /\ nseg = 1) =>
        /\ xpc # "panic"
        /\ ParseUsize(path).val >= Len(doc.vals) => (xpc = "done" /\ res = NA)
        /\ (ParseUsize(path).val < Len(doc.vals) /\ xpc = "done") =>
              res = ValueText(doc.vals[ParseUsize(path).val + 1], sp)

=============================================================================
